---- MODULE Spec2Model ----
(***************************************************************************)
(* Model of wishing_star/OpenAIHandler.py: the per-user chat history       *)
(* (UserChatHistory) and the rate-gated chat handler (OpenAIHandler).      *)
(*                                                                         *)
(* OpenAIHandler.chat is a plain synchronous method, so callers that do    *)
(* not serialise it are threads.  A call is split into steps at every      *)
(* access to shared state (the handler's fields and the history objects);  *)
(* statements that touch only locals are merged into the adjacent step.    *)
(* The bodies of the two UserChatHistory methods are taken as one step     *)
(* each.  Strings are sequences of characters.  Timestamps are             *)
(* milliseconds; time passes only while every call is either not running   *)
(* or blocked in the completion service.                                   *)
(***************************************************************************)
EXTENDS Integers, Sequences, FiniteSets, TLC

VARIABLES
    now,                      \* value get_current_ts() returns
    last_success_request_ts,  \* OpenAIHandler.last_success_request_ts
    chat_history_db,          \* OpenAIHandler.chat_history_db: uid -> object
    heap,                     \* the UserChatHistory objects ever constructed
    pc,                       \* position of each caller inside chat()
    msg,                      \* chat(): parameter msg
    uid,                      \* chat(): parameter uid
    request_ts,               \* chat(): local request_ts
    chat_history,             \* chat(): local chat_history (object reference)
    response_msg,             \* chat(): local response_msg
    response_ts,              \* chat(): local response_ts
    exception,                \* exception in flight out of chat()
    api_calls,                \* openai.ChatCompletion.create calls of this chat()
    ncalls                    \* chat() calls started so far

vars == <<now, last_success_request_ts, chat_history_db, heap, pc, msg, uid,
          request_ts, chat_history, response_msg, response_ts, exception,
          api_calls, ncalls>>

----------------------------------------------------------------------------
(* Program constants *)

CHAT_RESET_TS == 10 * 60 * 1000

minimum_request_period == 5 * 1000

\* only the first of the three literals is bound to the name (lines 9-10 are
\* expression statements); the back quotes around Jirachi are left out
OPENAI_SYS_INIT_MESSAGE ==
    <<"Now, you are playing the role as the Pokemon Jirachi and you will">>

JirachiPrefix == <<"J", "i", "r", "a", "c", "h", "i", ",", " ">>

----------------------------------------------------------------------------
(* Bounds *)

MaxCalls == 3

MaxThreadCalls == 2

Procs == {1, 2}

Caller == CHOOSE p \in Procs : TRUE

UIDs == {1, 2}

Msgs == { <<"h", "i">>,
          JirachiPrefix \o <<"h", "i">>,
          <<"J", "i", "r", "a", "c", "h", "i">> }

Replies == { <<>>, <<"o", "k">> }

StartTime == 2 * minimum_request_period

Times == { StartTime,
           StartTime + minimum_request_period,
           StartTime + CHAT_RESET_TS,
           StartTime + CHAT_RESET_TS + 1 }

----------------------------------------------------------------------------
(* Values *)

NoMsg == <<>>

NoUid == 0

NoRef == 0

NoTs == 0

NoResponse == [kind |-> "unset", content |-> <<>>]

NoneResponse == [kind |-> "None", content |-> <<>>]

StrResponse(s) == [kind |-> "str", content |-> s]

ServiceResponses == {NoneResponse} \cup {StrResponse(s) : s \in Replies}

Turn(role, content) == [role |-> role, content |-> content]

----------------------------------------------------------------------------
(* UserChatHistory *)

UserChatHistory(u, ts) ==
    [uid |-> u,
     last_communicate_ts |-> ts,
     chat_history |-> <<Turn("system", OPENAI_SYS_INIT_MESSAGE)>>]

startswith(s, prefix) ==
    /\ Len(s) >= Len(prefix)
    /\ SubSeq(s, 1, Len(prefix)) = prefix

\* mutant: the reset keeps nothing (chat_history[:0])
get_current_chat_drop_all(self, m, ts) ==
    LET kept == IF (self.last_communicate_ts - ts) > CHAT_RESET_TS
                THEN SubSeq(self.chat_history, 1, 0)
                ELSE self.chat_history
        m2   == IF ~startswith(m, JirachiPrefix) THEN JirachiPrefix \o m ELSE m
    IN  [self EXCEPT !.chat_history = Append(kept, Turn("user", m2))]

\* mutant: the reset tests the time elapsed since the last response
get_current_chat_elapsed(self, m, ts) ==
    LET kept == IF (ts - self.last_communicate_ts) > CHAT_RESET_TS
                THEN SubSeq(self.chat_history, 1, 1)
                ELSE self.chat_history
        m2   == IF ~startswith(m, JirachiPrefix) THEN JirachiPrefix \o m ELSE m
    IN  [self EXCEPT !.chat_history = Append(kept, Turn("user", m2))]

\* mutant: the prefix is added without looking at the message
get_current_chat_always_prefix(self, m, ts) ==
    LET kept == IF (self.last_communicate_ts - ts) > CHAT_RESET_TS
                THEN SubSeq(self.chat_history, 1, 1)
                ELSE self.chat_history
    IN  [self EXCEPT !.chat_history =
                        Append(kept, Turn("user", JirachiPrefix \o m))]

\* mutant: the reset tests the distance between the two timestamps
get_current_chat_distance(self, m, ts) ==
    LET kept == IF \/ (self.last_communicate_ts - ts) > CHAT_RESET_TS
                   \/ (ts - self.last_communicate_ts) > CHAT_RESET_TS
                THEN SubSeq(self.chat_history, 1, 1)
                ELSE self.chat_history
        m2   == IF ~startswith(m, JirachiPrefix) THEN JirachiPrefix \o m ELSE m
    IN  [self EXCEPT !.chat_history = Append(kept, Turn("user", m2))]

\* mutant: the user turn is appended only when the history is not reset
get_current_chat_reset_only(self, m, ts) ==
    LET m2 == IF ~startswith(m, JirachiPrefix) THEN JirachiPrefix \o m ELSE m
    IN  IF (self.last_communicate_ts - ts) > CHAT_RESET_TS
        THEN [self EXCEPT !.chat_history = SubSeq(self.chat_history, 1, 1)]
        ELSE [self EXCEPT !.chat_history =
                             Append(self.chat_history, Turn("user", m2))]

get_current_chat(self, m, ts) ==
    LET kept == IF (self.last_communicate_ts - ts) > CHAT_RESET_TS
                THEN SubSeq(self.chat_history, 1, 1)
                ELSE self.chat_history
        m2   == IF ~startswith(m, JirachiPrefix) THEN JirachiPrefix \o m ELSE m
    IN  [self EXCEPT !.chat_history = Append(kept, Turn("user", m2))]

\* mutant: the timestamp is not recorded
update_response_keep_ts(self, response, ts) ==
    [self EXCEPT !.chat_history = Append(self.chat_history,
                                         Turn("assistant", response))]

update_response(self, response, ts) ==
    [self EXCEPT !.last_communicate_ts = ts,
                 !.chat_history = Append(self.chat_history,
                                         Turn("assistant", response))]

----------------------------------------------------------------------------
(* OpenAIHandler *)

Init ==
    /\ now = StartTime
    /\ last_success_request_ts = 0
    /\ chat_history_db = <<>>
    /\ heap = <<>>
    /\ pc = [p \in Procs |-> "idle"]
    /\ msg = [p \in Procs |-> NoMsg]
    /\ uid = [p \in Procs |-> NoUid]
    /\ request_ts = [p \in Procs |-> NoTs]
    /\ chat_history = [p \in Procs |-> NoRef]
    /\ response_msg = [p \in Procs |-> NoResponse]
    /\ response_ts = [p \in Procs |-> NoTs]
    /\ exception = [p \in Procs |-> "none"]
    /\ api_calls = [p \in Procs |-> 0]
    /\ ncalls = 0

TooFrequentStrict(ts, last) == ts - last < minimum_request_period

TooFrequent(ts, last) == ts - last <= minimum_request_period

\* mutant: the history is looked up and constructed before the gate is tested
chat_gate_create_first(p, m, u) ==
    /\ pc[p] = "idle"
    /\ ncalls' = ncalls + 1
    /\ msg' = [msg EXCEPT ![p] = m]
    /\ uid' = [uid EXCEPT ![p] = u]
    /\ request_ts' = [request_ts EXCEPT ![p] = now]
    /\ IF u \notin DOMAIN chat_history_db
       THEN /\ heap' = Append(heap, UserChatHistory(u, now))
            /\ chat_history_db' =
                  [k \in DOMAIN chat_history_db \cup {u} |->
                     IF k = u THEN Len(heap) + 1 ELSE chat_history_db[k]]
       ELSE UNCHANGED <<heap, chat_history_db>>
    /\ IF TooFrequent(now, last_success_request_ts)
       THEN /\ pc' = [pc EXCEPT ![p] = "raised"]
            /\ exception' = [exception EXCEPT ![p] = "FrequentRequestRateException"]
       ELSE /\ pc' = [pc EXCEPT ![p] = "lookup"]
            /\ UNCHANGED exception
    /\ UNCHANGED <<now, last_success_request_ts,
                   chat_history, response_msg, response_ts, api_calls>>

\* lines 96-98: read the clock, test the global gate, raise or go on
chat_gate(p, m, u) ==
    /\ pc[p] = "idle"
    /\ ncalls' = ncalls + 1
    /\ msg' = [msg EXCEPT ![p] = m]
    /\ uid' = [uid EXCEPT ![p] = u]
    /\ request_ts' = [request_ts EXCEPT ![p] = now]
    /\ IF TooFrequent(now, last_success_request_ts)
       THEN /\ pc' = [pc EXCEPT ![p] = "raised"]
            /\ exception' = [exception EXCEPT ![p] = "FrequentRequestRateException"]
       ELSE /\ pc' = [pc EXCEPT ![p] = "lookup"]
            /\ UNCHANGED exception
    /\ UNCHANGED <<now, last_success_request_ts, chat_history_db, heap,
                   chat_history, response_msg, response_ts, api_calls>>

\* mutant: a history is constructed on every call
chat_lookup_always_create(p) ==
    /\ pc[p] = "lookup"
    /\ pc' = [pc EXCEPT ![p] = "create"]
    /\ UNCHANGED <<now, last_success_request_ts, chat_history_db, heap, msg,
                   uid, request_ts, chat_history, response_msg, response_ts,
                   exception, api_calls, ncalls>>

\* line 100: uid not in self.chat_history_db
chat_lookup(p) ==
    /\ pc[p] = "lookup"
    /\ pc' = [pc EXCEPT ![p] = IF uid[p] \notin DOMAIN chat_history_db
                                THEN "create" ELSE "fetch"]
    /\ UNCHANGED <<now, last_success_request_ts, chat_history_db, heap, msg,
                   uid, request_ts, chat_history, response_msg, response_ts,
                   exception, api_calls, ncalls>>

\* mutant: the mapping is replaced by one that holds the new history only
chat_create_reset_db(p) ==
    /\ pc[p] = "create"
    /\ heap' = Append(heap, UserChatHistory(uid[p], now))
    /\ chat_history_db' = [k \in {uid[p]} |-> Len(heap) + 1]
    /\ pc' = [pc EXCEPT ![p] = "fetch"]
    /\ UNCHANGED <<now, last_success_request_ts, msg, uid, request_ts,
                   chat_history, response_msg, response_ts, exception,
                   api_calls, ncalls>>

\* mutant: a key that is already there keeps its history (dict.setdefault)
chat_create_setdefault(p) ==
    /\ pc[p] = "create"
    /\ heap' = Append(heap, UserChatHistory(uid[p], now))
    /\ chat_history_db' =
          IF uid[p] \in DOMAIN chat_history_db
          THEN chat_history_db
          ELSE [k \in DOMAIN chat_history_db \cup {uid[p]} |->
                  IF k = uid[p] THEN Len(heap) + 1 ELSE chat_history_db[k]]
    /\ pc' = [pc EXCEPT ![p] = "fetch"]
    /\ UNCHANGED <<now, last_success_request_ts, msg, uid, request_ts,
                   chat_history, response_msg, response_ts, exception,
                   api_calls, ncalls>>

\* line 101: self.chat_history_db[uid] = UserChatHistory(uid)
chat_create(p) ==
    /\ pc[p] = "create"
    /\ heap' = Append(heap, UserChatHistory(uid[p], now))
    /\ chat_history_db' =
          [k \in DOMAIN chat_history_db \cup {uid[p]} |->
              IF k = uid[p] THEN Len(heap) + 1 ELSE chat_history_db[k]]
    /\ pc' = [pc EXCEPT ![p] = "fetch"]
    /\ UNCHANGED <<now, last_success_request_ts, msg, uid, request_ts,
                   chat_history, response_msg, response_ts, exception,
                   api_calls, ncalls>>

\* mutant: one history serves every user
chat_fetch_any(p) ==
    /\ pc[p] = "fetch"
    /\ chat_history' = [chat_history EXCEPT ![p] =
                           chat_history_db[CHOOSE k \in DOMAIN chat_history_db :
                              \A j \in DOMAIN chat_history_db : k <= j]]
    /\ pc' = [pc EXCEPT ![p] = "request"]
    /\ UNCHANGED <<now, last_success_request_ts, chat_history_db, heap, msg,
                   uid, request_ts, response_msg, response_ts, exception,
                   api_calls, ncalls>>

\* line 102: chat_history = self.chat_history_db[uid]
chat_fetch(p) ==
    /\ pc[p] = "fetch"
    /\ chat_history' = [chat_history EXCEPT ![p] = chat_history_db[uid[p]]]
    /\ pc' = [pc EXCEPT ![p] = "request"]
    /\ UNCHANGED <<now, last_success_request_ts, chat_history_db, heap, msg,
                   uid, request_ts, response_msg, response_ts, exception,
                   api_calls, ncalls>>

\* lines 107-111: the argument chat_history.get_current_chat(msg, request_ts)
\* is evaluated, then openai.ChatCompletion.create is entered
chat_request(p) ==
    /\ pc[p] = "request"
    /\ heap' = [heap EXCEPT ![chat_history[p]] =
                   get_current_chat(heap[chat_history[p]], msg[p], request_ts[p])]
    /\ api_calls' = [api_calls EXCEPT ![p] = api_calls[p] + 1]
    /\ pc' = [pc EXCEPT ![p] = "awaiting"]
    /\ UNCHANGED <<now, last_success_request_ts, chat_history_db, msg, uid,
                   request_ts, chat_history, response_msg, response_ts,
                   exception, ncalls>>

\* mutant: the test is "not response_msg"
IsFalsy(r) == r.kind = "None" \/ r.content = <<>>

\* line 114: None is response_msg
IsNone(r) == r.kind = "None"

\* mutant: the success is recorded before the content is tested
service_returns_record_first(p, r) ==
    /\ pc[p] = "awaiting"
    /\ response_ts' = [response_ts EXCEPT ![p] = now]
    /\ response_msg' = [response_msg EXCEPT ![p] = r]
    /\ last_success_request_ts' = now
    /\ IF IsNone(r)
       THEN /\ pc' = [pc EXCEPT ![p] = "raised"]
            /\ exception' = [exception EXCEPT ![p] = "Exception"]
       ELSE /\ pc' = [pc EXCEPT ![p] = "record"]
            /\ UNCHANGED exception
    /\ UNCHANGED <<now, chat_history_db, heap, msg,
                   uid, request_ts, chat_history, api_calls, ncalls>>

\* lines 107, 112-115: the service returns; response_ts is read and the
\* content of the first choice is tested against None
service_returns(p, r) ==
    /\ pc[p] = "awaiting"
    /\ response_ts' = [response_ts EXCEPT ![p] = now]
    /\ response_msg' = [response_msg EXCEPT ![p] = r]
    /\ IF IsNone(r)
       THEN /\ pc' = [pc EXCEPT ![p] = "raised"]
            /\ exception' = [exception EXCEPT ![p] = "Exception"]
       ELSE /\ pc' = [pc EXCEPT ![p] = "record"]
            /\ UNCHANGED exception
    /\ UNCHANGED <<now, last_success_request_ts, chat_history_db, heap, msg,
                   uid, request_ts, chat_history, api_calls, ncalls>>

\* mutant: the request is sent again when the service raises
service_raises_retry(p) ==
    /\ pc[p] = "awaiting"
    /\ api_calls' = [api_calls EXCEPT ![p] = api_calls[p] + 1]
    /\ UNCHANGED <<now, last_success_request_ts, chat_history_db, heap, pc, msg,
                   uid, request_ts, chat_history, response_msg, response_ts,
                   exception, ncalls>>

\* line 107: openai.ChatCompletion.create raises; chat() has no handler
service_raises(p) ==
    /\ pc[p] = "awaiting"
    /\ pc' = [pc EXCEPT ![p] = "raised"]
    /\ exception' = [exception EXCEPT ![p] = "ServiceError"]
    /\ UNCHANGED <<now, last_success_request_ts, chat_history_db, heap, msg,
                   uid, request_ts, chat_history, response_msg, response_ts,
                   api_calls, ncalls>>

\* mutant: the success is not recorded
chat_record_skip(p) ==
    /\ pc[p] = "record"
    /\ pc' = [pc EXCEPT ![p] = "update"]
    /\ UNCHANGED <<now, last_success_request_ts, chat_history_db, heap, msg,
                   uid, request_ts, chat_history, response_msg, response_ts,
                   exception, api_calls, ncalls>>

\* mutant: the gate is tested again before the success is recorded
chat_record_recheck(p) ==
    /\ pc[p] = "record"
    /\ IF TooFrequent(request_ts[p], last_success_request_ts)
       THEN /\ pc' = [pc EXCEPT ![p] = "raised"]
            /\ exception' = [exception EXCEPT ![p] = "FrequentRequestRateException"]
            /\ UNCHANGED last_success_request_ts
       ELSE /\ pc' = [pc EXCEPT ![p] = "update"]
            /\ last_success_request_ts' = response_ts[p]
            /\ UNCHANGED exception
    /\ UNCHANGED <<now, chat_history_db, heap, msg, uid, request_ts,
                   chat_history, response_msg, response_ts, api_calls, ncalls>>

\* line 123: self.last_success_request_ts = response_ts
chat_record(p) ==
    /\ pc[p] = "record"
    /\ last_success_request_ts' = response_ts[p]
    /\ pc' = [pc EXCEPT ![p] = "update"]
    /\ UNCHANGED <<now, chat_history_db, heap, msg, uid, request_ts,
                   chat_history, response_msg, response_ts, exception,
                   api_calls, ncalls>>

\* mutant: an empty reply is not recorded ("if response_msg:")
chat_update_skip_empty(p) ==
    /\ pc[p] = "update"
    /\ heap' = IF response_msg[p].content = <<>>
               THEN heap
               ELSE [heap EXCEPT ![chat_history[p]] =
                        update_response(heap[chat_history[p]],
                                        response_msg[p].content, response_ts[p])]
    /\ pc' = [pc EXCEPT ![p] = "return"]
    /\ UNCHANGED <<now, last_success_request_ts, chat_history_db, msg, uid,
                   request_ts, chat_history, response_msg, response_ts,
                   exception, api_calls, ncalls>>

\* line 124: chat_history.update_response(response_msg, response_ts)
chat_update(p) ==
    /\ pc[p] = "update"
    /\ heap' = [heap EXCEPT ![chat_history[p]] =
                   update_response(heap[chat_history[p]],
                                   response_msg[p].content, response_ts[p])]
    /\ pc' = [pc EXCEPT ![p] = "return"]
    /\ UNCHANGED <<now, last_success_request_ts, chat_history_db, msg, uid,
                   request_ts, chat_history, response_msg, response_ts,
                   exception, api_calls, ncalls>>

\* the frame of chat() is dropped when the call ends
EndCall(p) ==
    /\ pc' = [pc EXCEPT ![p] = "idle"]
    /\ msg' = [msg EXCEPT ![p] = NoMsg]
    /\ uid' = [uid EXCEPT ![p] = NoUid]
    /\ request_ts' = [request_ts EXCEPT ![p] = NoTs]
    /\ chat_history' = [chat_history EXCEPT ![p] = NoRef]
    /\ response_msg' = [response_msg EXCEPT ![p] = NoResponse]
    /\ response_ts' = [response_ts EXCEPT ![p] = NoTs]
    /\ exception' = [exception EXCEPT ![p] = "none"]
    /\ api_calls' = [api_calls EXCEPT ![p] = 0]
    /\ UNCHANGED <<now, last_success_request_ts, chat_history_db, heap, ncalls>>

\* line 125: return response_msg
chat_return(p) ==
    /\ pc[p] = "return"
    /\ EndCall(p)

\* lines 98, 107, 115: the exception leaves chat()
chat_raise(p) ==
    /\ pc[p] = "raised"
    /\ EndCall(p)

----------------------------------------------------------------------------
(* get_current_ts *)

Quiescent == \A p \in Procs : pc[p] \in {"idle", "awaiting"}

Tick(t) ==
    /\ Quiescent
    /\ t > now
    /\ now' = t
    /\ UNCHANGED <<last_success_request_ts, chat_history_db, heap, pc, msg,
                   uid, request_ts, chat_history, response_msg, response_ts,
                   exception, api_calls, ncalls>>

\* the wall clock is set back
ClockBack(t) ==
    /\ Quiescent
    /\ t < now
    /\ now' = t
    /\ UNCHANGED <<last_success_request_ts, chat_history_db, heap, pc, msg,
                   uid, request_ts, chat_history, response_msg, response_ts,
                   exception, api_calls, ncalls>>

----------------------------------------------------------------------------
(* Specifications *)

NoneRunning == \A q \in Procs : pc[q] = "idle"

Step(p) ==
    \/ chat_lookup(p)
    \/ chat_create(p)
    \/ chat_fetch(p)
    \/ chat_request(p)
    \/ \E r \in ServiceResponses : service_returns(p, r)
    \/ service_raises(p)
    \/ chat_record(p)
    \/ chat_update(p)
    \/ chat_return(p)
    \/ chat_raise(p)

\* the caller serialises access (one call ends before the next starts), so
\* which thread makes a call makes no difference
Next ==
    \/ \E t \in Times : Tick(t)
    \/ \E t \in Times : ClockBack(t)
    \/ \E m \in Msgs, u \in UIDs :
          ncalls < MaxCalls /\ NoneRunning /\ chat_gate(Caller, m, u)
    \/ Step(Caller)

Spec == Init /\ [][Next]_vars

\* callers are threads that nothing serialises
ThreadNext ==
    \/ \E t \in Times : Tick(t)
    \/ \E t \in Times : ClockBack(t)
    \/ \E p \in Procs, m \in Msgs, u \in UIDs :
          ncalls < MaxThreadCalls /\ chat_gate(p, m, u)
    \/ \E p \in Procs : Step(p)

ThreadSpec == Init /\ [][ThreadNext]_vars

\* serialised calls and a clock that never goes back
MonoNext ==
    \/ \E t \in Times : Tick(t)
    \/ \E m \in Msgs, u \in UIDs :
          ncalls < MaxCalls /\ NoneRunning /\ chat_gate(Caller, m, u)
    \/ Step(Caller)

MonoSpec == Init /\ [][MonoNext]_vars

TypeOK ==
    /\ now \in Times
    /\ last_success_request_ts \in Times \cup {0}
    /\ DOMAIN chat_history_db \subseteq UIDs
    /\ \A k \in DOMAIN chat_history_db : chat_history_db[k] \in 1..Len(heap)
    /\ pc \in [Procs -> {"idle", "lookup", "create", "fetch", "request",
                         "awaiting", "record", "update", "return", "raised"}]
    /\ ncalls \in 0..MaxCalls

----------------------------------------------------------------------------
(* Properties *)

SystemTurn == [role |-> "system", content |-> OPENAI_SYS_INIT_MESSAGE]

HasPersonaPrefix(m) ==
    /\ Len(m) >= 9
    /\ \A i \in 1..9 : m[i] = JirachiPrefix[i]

Prefixed(m) == IF HasPersonaPrefix(m) THEN m ELSE JirachiPrefix \o m

\* the history the mapping holds for the user of p's call
Ledger(p) == heap[chat_history_db[uid[p]]]

LastTurn(h) == h.chat_history[Len(h.chat_history)]

HasAssistantTurn(h) ==
    \E i \in 1..Len(h.chat_history) : h.chat_history[i].role = "assistant"

\* C1: a call whose request timestamp t has t - last_success_request_ts <=
\* 5000 raises FrequentRequestRateException, whoever the user is and at the
\* boundary 5000 too; a call with t - last_success_request_ts > 5000 is not
\* rejected by the gate.
C1_GlobalRateGate ==
    [][\A p \in Procs :
         (pc[p] = "idle" /\ pc'[p] # "idle") =>
            /\ request_ts'[p] = now
            /\ (now - last_success_request_ts <= 5000) <=>
                  (pc'[p] = "raised"
                   /\ exception'[p] = "FrequentRequestRateException")]_vars

\* C1 witness: a call is rejected exactly 5000 ms after the last success, and
\* that success was another user's
C1_Witness ==
    \E p \in Procs :
       /\ pc[p] = "raised"
       /\ exception[p] = "FrequentRequestRateException"
       /\ request_ts[p] - last_success_request_ts = 5000
       /\ \E u \in DOMAIN chat_history_db :
             /\ u # uid[p]
             /\ heap[chat_history_db[u]].last_communicate_ts
                   = last_success_request_ts
             /\ LastTurn(heap[chat_history_db[u]]).role = "assistant"

\* C2: when chat(m, u) is about to return the reply r, the last two turns of
\* u's history are the user turn with the prefixed m and the assistant turn
\* with r, whatever calls came before.
C2_RoundTrip ==
    \A p \in Procs :
       pc[p] = "return" =>
          LET h == Ledger(p).chat_history
              n == Len(h)
          IN  /\ n >= 3
              /\ h[n - 1] = [role |-> "user", content |-> Prefixed(msg[p])]
              /\ h[n] = [role |-> "assistant",
                         content |-> response_msg[p].content]

\* C2 witness: a call returns a reply on a history that earlier calls, one of
\* them failed, have already extended
C2_Witness ==
    \E p \in Procs :
       /\ pc[p] = "return"
       /\ LET h == Ledger(p).chat_history
          IN  /\ Len(h) >= 5
              /\ \E i \in 2..(Len(h) - 3) :
                    h[i].role = "user" /\ h[i + 1].role = "user"

\* C3: every history in the mapping has at least one turn and its first turn
\* is the system turn with the fixed persona content, in every reachable
\* state.
C3_SystemTurnFirst ==
    \A u \in DOMAIN chat_history_db :
       LET h == heap[chat_history_db[u]].chat_history
       IN  /\ Len(h) >= 1
           /\ h[1] = SystemTurn

\* C3 witness: the reset branch of get_current_chat has run (the history was
\* cut and holds the system turn and the new user turn) and the service has
\* answered
C3_Witness ==
    \E p \in Procs :
       /\ pc[p] = "record"
       /\ heap[chat_history[p]].last_communicate_ts - request_ts[p] > 600000
       /\ Len(heap[chat_history[p]].chat_history) = 2
       /\ heap[chat_history[p]].chat_history[1] = SystemTurn

HistoriesOf(u) == {i \in 1..Len(heap) : heap[i].uid = u}

\* C4: with calls serialised, exactly one history is ever constructed for a
\* user whose call passed the gate, it is the one the mapping holds under that
\* user's key and it starts with the system turn; a user none of whose calls
\* passed the gate has none.
C4_OneLedgerPerUser ==
    /\ \A u \in UIDs :
          Cardinality(HistoriesOf(u)) = IF u \in DOMAIN chat_history_db THEN 1 ELSE 0
    /\ \A u \in DOMAIN chat_history_db :
          /\ heap[chat_history_db[u]].uid = u
          /\ heap[chat_history_db[u]].chat_history[1] = SystemTurn
    /\ \A p \in Procs :
          pc[p] \in {"fetch", "request", "awaiting", "record", "update", "return"}
             => uid[p] \in DOMAIN chat_history_db

\* C4 witness: a later call of a user has passed the lookup and the user still
\* has the one history, which holds the turn of the earlier call
C4_Witness ==
    \E p \in Procs :
       /\ pc[p] = "request"
       /\ Cardinality(HistoriesOf(uid[p])) = 1
       /\ Len(Ledger(p).chat_history) >= 2
       /\ Cardinality(DOMAIN chat_history_db) = 2

\* C5 as stated: a reply text that is absent or the empty string makes chat
\* raise, and the history then ends with the new user turn.
C5_EmptyOrMissingFails ==
    \A p \in Procs :
       (response_msg[p].kind = "None"
        \/ (response_msg[p].kind = "str" /\ response_msg[p].content = <<>>)) =>
          /\ pc[p] = "raised"
          /\ exception[p] = "Exception"
          /\ LastTurn(Ledger(p)) = [role |-> "user", content |-> Prefixed(msg[p])]

\* C5 amended: an absent reply text (None) makes chat raise, and the history
\* then ends with the new user turn; an empty string is a reply like any
\* other: chat goes on to return it and records it as an assistant turn.
C5_NoneFails ==
    \A p \in Procs :
       /\ response_msg[p].kind = "None" =>
             /\ pc[p] = "raised"
             /\ exception[p] = "Exception"
             /\ LastTurn(Ledger(p)) = [role |-> "user", content |-> Prefixed(msg[p])]
       /\ (response_msg[p].kind = "str" /\ response_msg[p].content = <<>>) =>
             /\ pc[p] \in {"record", "update", "return"}
             /\ exception[p] = "none"
             /\ pc[p] = "return" =>
                   LastTurn(Ledger(p)) = [role |-> "assistant", content |-> <<>>]

\* C5 witness: the service answered None on a history that already holds a
\* reply, and chat raised
C5_Witness ==
    \E p \in Procs :
       /\ pc[p] = "raised"
       /\ exception[p] = "Exception"
       /\ response_msg[p].kind = "None"
       /\ HasAssistantTurn(Ledger(p))
       /\ LastTurn(Ledger(p)).role = "user"

\* C6 as documented: a request that arrives more than 10 minutes after the
\* user's last response is sent with a cleared history, the system turn and the
\* new user turn only.
C6_StaleChatReset ==
    \A p \in Procs :
       (/\ pc[p] = "awaiting"
        /\ HasAssistantTurn(Ledger(p))
        /\ request_ts[p] - Ledger(p).last_communicate_ts > 600000) =>
          Ledger(p).chat_history =
             <<SystemTurn, [role |-> "user", content |-> Prefixed(msg[p])]>>

C8_PrefixNormalization ==
    \A p \in Procs :
       pc[p] = "awaiting" =>
          LET last == LastTurn(heap[chat_history[p]])
          IN  /\ last.role = "user"
              /\ ~HasPersonaPrefix(msg[p]) => last.content = JirachiPrefix \o msg[p]
              /\ HasPersonaPrefix(msg[p]) => last.content = msg[p]

\* C8 witness: a message that already starts with the prefix was stored as it
\* came
C8_Witness ==
    \E p \in Procs :
       /\ pc[p] = "awaiting"
       /\ HasPersonaPrefix(msg[p])
       /\ Len(msg[p]) > 9
       /\ LastTurn(heap[chat_history[p]]).content = msg[p]

\* C9: update_response appends the one assistant turn with the response text,
\* leaves the turns before it as they were, and sets last_communicate_ts to
\* the response timestamp.
C9_UpdateResponse ==
    [][\A p \in Procs :
         (pc[p] = "update" /\ pc'[p] = "return") =>
            LET old == heap[chat_history[p]]
                new == heap'[chat_history[p]]
            IN  /\ Len(new.chat_history) = Len(old.chat_history) + 1
                /\ SubSeq(new.chat_history, 1, Len(old.chat_history))
                      = old.chat_history
                /\ LastTurn(new) = [role |-> "assistant",
                                    content |-> response_msg[p].content]
                /\ new.last_communicate_ts = response_ts[p]
                /\ \A i \in 1..Len(heap) :
                      i # chat_history[p] => heap'[i] = heap[i]]_vars

\* C9 witness: a reply that came later than its request has been recorded on a
\* history with earlier turns
C9_Witness ==
    \E p \in Procs :
       /\ pc[p] = "return"
       /\ response_ts[p] > request_ts[p]
       /\ heap[chat_history[p]].last_communicate_ts = response_ts[p]
       /\ Len(heap[chat_history[p]].chat_history) >= 4
       /\ LastTurn(heap[chat_history[p]]).role = "assistant"

\* C10: a chat call enters the completion service at most once, not at all
\* when the gate rejects it, and when the service raises the call ends with
\* that error after the one attempt, the history ending with the user turn.
C10_NoRetry ==
    \A p \in Procs :
       /\ api_calls[p] <= 1
       /\ exception[p] = "FrequentRequestRateException" => api_calls[p] = 0
       /\ exception[p] = "ServiceError" =>
             /\ pc[p] = "raised"
             /\ api_calls[p] = 1
             /\ LastTurn(Ledger(p)) = [role |-> "user", content |-> Prefixed(msg[p])]

\* C10 witness: the service raised and the call is ending with that error
C10_Witness ==
    \E p \in Procs :
       /\ pc[p] = "raised"
       /\ exception[p] = "ServiceError"
       /\ api_calls[p] = 1
       /\ HasAssistantTurn(Ledger(p))

\* C11: the gate is tested once, at the entry of the call, and line 123
\* overwrites last_success_request_ts without looking at it: a call that is
\* past the gate is never rejected, whatever other threads record meanwhile.
\* That is what lets two threads both pass the gate before either records.
C11_GateOnlyAtEntry ==
    [][\A p \in Procs :
         /\ (exception'[p] = "FrequentRequestRateException"
             /\ exception[p] # "FrequentRequestRateException") => pc[p] = "idle"
         /\ (pc[p] = "record" /\ pc'[p] # "record") =>
               /\ pc'[p] = "update"
               /\ last_success_request_ts' = response_ts[p]]_vars

Within(a, b, d) == a - b <= d /\ b - a <= d

\* C11 witness: two threads have both got a reply and recorded it although
\* their request timestamps, and their response timestamps, are within 5000
\* ms of each other
C11_Witness ==
    \E p, q \in Procs :
       /\ p # q
       /\ pc[p] = "return"
       /\ pc[q] = "return"
       /\ Within(request_ts[p], request_ts[q], 5000)
       /\ Within(response_ts[p], response_ts[q], 5000)
       /\ Within(request_ts[p], response_ts[q], 5000)
       /\ Within(request_ts[q], response_ts[p], 5000)

MappedHistories == {chat_history_db[u] : u \in DOMAIN chat_history_db}

\* C12: line 101 stores the history it constructs under the uid whether or
\* not the uid has become a key since line 100 was tested: the mapping then
\* holds the new object only, and the object it held before stays as it was
\* outside the mapping.
C12_LastCreateWins ==
    [][\A p \in Procs :
         (pc[p] = "create" /\ pc'[p] # "create") =>
            /\ Len(heap') = Len(heap) + 1
            /\ \A i \in 1..Len(heap) : heap'[i] = heap[i]
            /\ chat_history_db'[uid[p]] = Len(heap')
            /\ uid[p] \in DOMAIN chat_history_db =>
                  chat_history_db[uid[p]] \notin
                     {chat_history_db'[u] : u \in DOMAIN chat_history_db'}]_vars

\* C12 witness: two threads made the first call of the same user, each
\* constructed a history, the mapping holds one of them and the other, with
\* the turns and the reply recorded in it, is outside the mapping
C12_Witness ==
    \E p, q \in Procs :
       /\ p # q
       /\ uid[p] = uid[q]
       /\ chat_history[p] # NoRef
       /\ chat_history[q] # NoRef
       /\ chat_history[p] # chat_history[q]
       /\ chat_history_db[uid[p]] = chat_history[q]
       /\ chat_history[p] \notin MappedHistories
       /\ pc[p] = "return"
       /\ HasAssistantTurn(heap[chat_history[p]])
       /\ Len(heap) = 2

\* C13: last_success_request_ts is 0 after construction; the only step that
\* changes it is line 123, which sets it to the response timestamp of a call
\* that got a reply and then returns it; no call that ends with an exception
\* has changed it.
C13_LastSuccessFrame ==
    /\ last_success_request_ts = 0
    /\ [][/\ last_success_request_ts' # last_success_request_ts =>
               \E p \in Procs :
                  /\ pc[p] = "record"
                  /\ pc'[p] = "update"
                  /\ response_msg[p].kind = "str"
                  /\ last_success_request_ts' = response_ts[p]
          /\ \A p \in Procs :
                /\ pc'[p] = "raised" => pc[p] \in {"idle", "awaiting", "raised"}
                /\ pc[p] = "update" => pc'[p] \in {"update", "return"}
                /\ pc[p] = "return" => pc'[p] \in {"return", "idle"}]_vars

\* C13 witness: a call failed in the service later than the last success and
\* last_success_request_ts still holds the time of that success
C13_Witness ==
    \E p \in Procs :
       /\ pc[p] = "raised"
       /\ exception[p] \in {"Exception", "ServiceError"}
       /\ HasAssistantTurn(Ledger(p))
       /\ last_success_request_ts = Ledger(p).last_communicate_ts
       /\ request_ts[p] > last_success_request_ts
       /\ now > request_ts[p]

RejectedCall(p) == pc[p] = "raised" /\ exception[p] = "FrequentRequestRateException"

\* C14: the steps of a call that the gate rejects (the raise at line 98 and
\* the exception leaving chat) construct no history, change no history and no
\* key of the mapping, leave last_success_request_ts alone and never enter the
\* completion service.
C14_RejectionChangesNothing ==
    [][\A p \in Procs :
         (RejectedCall(p)' \/ RejectedCall(p)) =>
            /\ heap' = heap
            /\ chat_history_db' = chat_history_db
            /\ last_success_request_ts' = last_success_request_ts
            /\ api_calls[p] = 0
            /\ api_calls'[p] = 0]_vars

\* C14 witness: the call of a user that has no history was rejected, and the
\* user still has none
C14_Witness ==
    \E p \in Procs :
       /\ RejectedCall(p)
       /\ uid[p] \notin DOMAIN chat_history_db
       /\ HistoriesOf(uid[p]) = {}
       /\ chat_history_db # <<>>
       /\ api_calls[p] = 0

\* C15: with calls serialised and a clock that never goes back, a call that
\* got a reply was stamped more than 5000 ms after the response timestamp of
\* every earlier call that got one, of the same user or another.
C15_SuccessesSpaced ==
    \A p \in Procs :
       pc[p] = "record" =>
          /\ request_ts[p] - last_success_request_ts > 5000
          /\ \A i \in 1..Len(heap) :
                HasAssistantTurn(heap[i]) =>
                   request_ts[p] - heap[i].last_communicate_ts > 5000

\* C15 witness: a call got its reply after both users had got one before
C15_Witness ==
    \E p \in Procs :
       /\ pc[p] = "record"
       /\ last_success_request_ts > 0
       /\ \E i \in 1..Len(heap) :
             /\ heap[i].uid # uid[p]
             /\ HasAssistantTurn(heap[i])
             /\ heap[i].last_communicate_ts = last_success_request_ts

C17_PerUserIsolation ==
    [][\A i \in 1..Len(heap) :
         heap'[i] # heap[i] =>
            \E p \in Procs :
               /\ pc[p] \in {"request", "update"}
               /\ uid[p] = heap[i].uid]_vars

\* C17 witness: a call of one user has recorded its reply while the other
\* user's history holds a reply of an earlier time
C17_Witness ==
    \E p \in Procs :
       /\ pc[p] = "return"
       /\ \E u \in DOMAIN chat_history_db :
             /\ u # uid[p]
             /\ HasAssistantTurn(heap[chat_history_db[u]])
             /\ heap[chat_history_db[u]].last_communicate_ts # response_ts[p]

RECURSIVE CountRole(_, _)
CountRole(h, role) ==
    IF h = <<>> THEN 0
    ELSE (IF h[1].role = role THEN 1 ELSE 0) + CountRole(Tail(h), role)

\* C18: with calls serialised, in every history each assistant turn comes
\* right after a user turn, and there are never more assistant turns than user
\* turns.
C18_TurnOrder ==
    \A i \in 1..Len(heap) :
       LET h == heap[i].chat_history
       IN  /\ \A k \in 1..Len(h) :
                h[k].role = "assistant" => (k > 1 /\ h[k - 1].role = "user")
           /\ CountRole(h, "assistant") <= CountRole(h, "user")

\* C18 witness: a history holds two user turns next to each other, left by a
\* failed call, and an assistant turn after them
C18_Witness ==
    \E i \in 1..Len(heap) :
       LET h == heap[i].chat_history
       IN  \E k \in 2..(Len(h) - 2) :
              /\ h[k].role = "user"
              /\ h[k + 1].role = "user"
              /\ h[k + 2].role = "assistant"

\* C19: a uid that is a key of the mapping stays a key, and with calls
\* serialised it keeps the history object it was given.
C19_NoEviction ==
    [][\A u \in DOMAIN chat_history_db :
         /\ u \in DOMAIN chat_history_db'
         /\ chat_history_db'[u] = chat_history_db[u]]_vars

\* C19 witness: both users have a history, each holding a reply, after calls
\* that succeeded and calls that failed
C19_Witness ==
    /\ DOMAIN chat_history_db = UIDs
    /\ \A u \in UIDs : HasAssistantTurn(heap[chat_history_db[u]])
    /\ Len(heap) = 2
    /\ \E p \in Procs : pc[p] = "raised"
====
